---- MODULE Spec2Model ----
(***************************************************************************)
(* Content ingestion and attributed generation pipeline of the quiz app   *)
(* (src/src/services/supabaseService.js).  The blob store, the relational *)
(* store, the auth service and the completion service are the             *)
(* environment: each request to them either succeeds or returns an error, *)
(* chosen nondeterministically.  Every workflow of the service is a       *)
(* sequence of awaits; each await is one step of the model.               *)
(***************************************************************************)
EXTENDS Integers, Sequences, FiniteSets, TLC

\* ------------------------------------------------------------------ bounds
\* Ingestion calls a client starts, under Spec.
MaxIngest == 2
\* processTextContent calls a client starts, under SpecGen.
MaxPaste == 1
\* Generation calls a client starts (the generation chained after a web-URL
\* ingestion is part of that ingestion and is not counted).
MaxGen == 1
\* Items one completion-service response holds at most.
MaxItems == 1
\* saveQuestion calls a client makes.
MaxSaves == 1
\* Requests the environment fails (auth, blob store, relational store,
\* extraction, completion service) in one run.
MaxFaults == 2
\* Characters of an input text (segments of a transcript), under SpecText.
MaxLen == 3
\* Clock readings of a run under SpecNet.
MaxClock == 5
\* Files of one handleFiles call, and the word count of one ingested file,
\* under SpecBatch.
MaxFiles == 4
MaxWords == 1
\* Workflows started in one run, under SpecOcr.
MaxFlows == 3

\* --------------------------------------------------------------- constants
Topics == {"t1", "t2"}
\* The entry points: processFileUpload, processTextContent, processWebURL,
\* processYouTubeURL.
Kinds == {"file", "text", "web", "youtube"}
\* generateAIContent, generateAIContentFromSources, processDirectTextInput.
Modes == {"bulk", "selective", "direct_text"}
\* A null column / an absent id.  Record ids are 1, 2, ... per table.
Null == 0
\* A null timestamp or duration column (clock readings are 0, 1, ...).
NoTime == -1
\* An id a caller may pass that names no Source at all.
UnknownId == 99

VARIABLES
  blobs,            \* storage bucket 'documents': the set of stored paths
  documents,        \* table documents: sequence of rows, id = index
  knowledgeBase,    \* table knowledge_base
  sources,          \* table sources
  generations,      \* table generations
  questions,        \* table questions
  generationItems,  \* table generation_items
  ing,              \* the ingestion call in flight or just returned
  gen,              \* the generation call in flight or just returned
  nIngest, nGen, nSaves,  \* calls made so far
  nFaults,                \* requests the environment has failed so far
  ext,                    \* a text extraction: its input and what it returned
  now,                    \* the clock the client and the store both read
  batch,                  \* the upload component's handleFiles call
  ocr                     \* the OCR worker of fileProcessingService and the
                          \* workflows that use it

vars == <<blobs, documents, knowledgeBase, sources, generations, questions,
          generationItems, ing, gen, nIngest, nGen, nSaves, nFaults, ext,
          now, batch, ocr>>

stores == <<blobs, documents, knowledgeBase, sources, generations, questions,
            generationItems>>

Ids(table) == 1..Len(table)

IdleIng ==
  [pc |-> "idle", kind |-> "none", topic |-> "none", path |-> Null,
   uploaded |-> FALSE, rmFailed |-> FALSE, docId |-> Null, kbId |-> Null,
   srcId |-> Null, result |-> "none", error |-> "none",
   fetchFailed |-> FALSE, placeholder |-> FALSE, urlValid |-> TRUE,
   before |-> [doc |-> 0, kb |-> 0, src |-> 0]]

IdleGen ==
  [pc |-> "idle", mode |-> "none", topic |-> "none", requested |-> {},
   sourceIds |-> {}, kb |-> {}, genId |-> Null, nItems |-> 0, qIds |-> {},
   aiCalled |-> FALSE, emptyResponse |-> FALSE, chained |-> FALSE,
   result |-> "none", startTime |-> 0,
   error |-> "none", qBefore |-> <<>>, gBefore |-> 0, iBefore |-> 0]

\* No text extraction under way.
IdleExt ==
  [pc |-> "idle", strategy |-> "none", input |-> <<>>, fetched |-> TRUE,
   text |-> <<>>, wordCount |-> 0, hasTranscript |-> FALSE,
   kbNull |-> FALSE, kbContent |-> <<>>,
   fileType |-> "none", fileName |-> "none", extractor |-> "none",
   message |-> "none"]

\* The upload component with no handleFiles call under way.
IdleBatch ==
  [pc |-> "idle", files |-> <<>>, results |-> <<>>, loading |-> FALSE,
   uploadStatus |-> "none"]

\* new FileProcessingService(): this.ocrWorker = null; no worker exists and
\* no workflow runs.
IdleOcr ==
  [ocrWorker |-> Null, live |-> {}, created |-> 0, flows |-> <<>>]

\* The store a session starts from: the client's topic t1 is empty, and
\* topic t2 holds what one earlier successful processTextContent call on it
\* left (a Document without blob, its KnowledgeBaseEntry, its Source).
Init ==
  /\ blobs = {}
  /\ documents = <<[topic |-> "t2", storagePath |-> Null]>>
  /\ knowledgeBase = <<[topic |-> "t2", documentId |-> 1]>>
  /\ sources = <<[topic |-> "t2", documentId |-> 1, knowledgeBaseId |-> 1,
                  sourceType |-> "text", processingStatus |-> "completed",
                  placeholder |-> FALSE, processedAt |-> 0,
                  ingestedAt |-> 0]>>
  /\ generations = <<>>
  /\ questions = <<>>
  /\ generationItems = <<>>
  /\ ing = IdleIng
  /\ gen = IdleGen
  /\ nIngest = 0
  /\ nGen = 0
  /\ nSaves = 0
  /\ nFaults = 0
  /\ ext = IdleExt
  /\ now = 0
  /\ batch = IdleBatch
  /\ ocr = IdleOcr

\* The environment answers a request: ok, or one more failure.
Answer(ok) ==
  IF ok THEN nFaults' = nFaults
  ELSE nFaults < MaxFaults /\ nFaults' = nFaults + 1

IngFree == ing.pc \in {"idle", "done"}
GenFree == gen.pc \in {"idle", "done"}

\* ------------------------------------------------------------- ingestion
\* The catch block of an entry point: log, then throw a wrapped error.
IngFail(w, err) == [w EXCEPT !.pc = "done", !.result = "error", !.error = err]

\* The step after a successful extraction / after the Document insert.
AfterStart(kind) == IF kind = "text" THEN "insertDoc" ELSE "extract"
AfterExtractNoUpload(kind) == "insertDoc"
AfterExtract(kind) == IF kind = "web" THEN "insertDoc" ELSE "upload"
AfterUpload(kind) == IF kind = "youtube" THEN "authCheck" ELSE "insertDoc"

\* Whether the entry point stores a blob, and the storage_path of its
\* Document row.
StoresBlob(kind) == kind \in {"file", "youtube"}
StoragePath(w) == IF StoresBlob(w.kind) THEN w.path ELSE Null

\* Entry: supabase.auth.getUser() and getTopic(), both before the try block.
\* valid: the url argument is well formed (new URL(url) parses it, a video
\* id can be extracted from it); a file or a pasted text has no url.
ProcessStart(kind, topic, valid, ok) ==
  /\ Answer(ok)
  /\ IngFree /\ GenFree
  /\ kind \in {"file", "text"} => valid
  /\ nIngest' = nIngest + 1
  /\ LET w == [IdleIng EXCEPT !.kind = kind, !.topic = topic,
                               !.urlValid = valid,
                               !.path = nIngest + 1,
                               !.before = [doc |-> Len(documents),
                                           kb |-> Len(knowledgeBase),
                                           src |-> Len(sources)]]
     IN ing' = IF ok THEN [w EXCEPT !.pc = AfterStart(kind)]
               ELSE IngFail(w, "auth")
  /\ gen' = IdleGen
  /\ UNCHANGED <<now, ext, batch, ocr, stores, nGen, nSaves>>

\* Whether the extraction strategy catches its own failure and returns a
\* placeholder text: extractYouTubeTranscript does; processFile and
\* processWebURL rethrow.
HasFallback(kind) == kind = "youtube"

\* fileProcessingService.processFile / processWebURL / processYouTubeURL.
\* ~ok: the file cannot be processed, or the page or transcript cannot be
\* fetched.  A malformed url makes the strategy throw inside its own try
\* block, before any request, so that its catch block decides.
Extract(ok) ==
  /\ Answer(ok)
  /\ ing.pc = "extract"
  /\ ~ing.urlValid => ok
  /\ LET w == [ing EXCEPT !.fetchFailed = ~ok /\ ing.kind # "file"]
     IN ing' = IF ok /\ ing.urlValid
               THEN [w EXCEPT !.pc = AfterExtract(ing.kind)]
               ELSE IF HasFallback(ing.kind)
                    THEN [w EXCEPT !.pc = AfterExtract(ing.kind),
                                   !.placeholder = TRUE]
               ELSE IngFail(w, "extraction")
  /\ UNCHANGED <<now, ext, batch, ocr, stores, gen, nIngest, nGen, nSaves>>

\* supabase.storage.from('documents').upload(filePath, ...).
Upload(ok) ==
  /\ Answer(ok)
  /\ ing.pc = "upload"
  /\ IF ok
     THEN /\ blobs' = blobs \cup {ing.path}
          /\ ing' = [ing EXCEPT !.pc = AfterUpload(ing.kind),
                                !.uploaded = TRUE]
     ELSE /\ blobs' = blobs
          /\ ing' = IngFail(ing, "upload")
  /\ UNCHANGED <<now, ext, batch, ocr,
                 documents, knowledgeBase, sources, generations, questions,
                 generationItems, gen, nIngest, nGen, nSaves>>

\* processYouTubeURL re-reads the user between the upload and the insert and
\* throws when the session is gone; the throw goes to the outer catch.
AuthCheck(ok) ==
  /\ Answer(ok)
  /\ ing.pc = "authCheck"
  /\ ing' = IF ok THEN [ing EXCEPT !.pc = "insertDoc"]
                  ELSE IngFail(ing, "auth")
  /\ UNCHANGED <<now, ext, batch, ocr, stores, gen, nIngest, nGen, nSaves>>

\* The compensating action of uploadFile and processYouTubeURL on a failed
\* Document insert: storage.remove([filePath]), its result ignored.
RemoveOnInsertFailure(kind) == StoresBlob(kind)

\* The Document insert.  rmOk: the compensating remove took the blob away;
\* rmThrown: a compensating remove rejected instead of returning
\* {data, error} (no try block encloses it, so its exception is what the
\* entry point's catch block receives).
InsertDoc(ok, rmOk, rmThrown) ==
  /\ ing.pc = "insertDoc"
  /\ nFaults' = nFaults + (IF ok THEN 0 ELSE 1)
                        + (IF rmOk /\ ~rmThrown THEN 0 ELSE 1)
  /\ nFaults' <= MaxFaults
  /\ ok => rmOk /\ ~rmThrown
  /\ IF ok
     THEN /\ documents' = Append(documents,
                [topic |-> ing.topic, storagePath |-> StoragePath(ing)])
          /\ ing' = [ing EXCEPT !.pc = "addKB", !.docId = Len(documents) + 1]
          /\ blobs' = blobs
     ELSE /\ documents' = documents
          /\ IF RemoveOnInsertFailure(ing.kind)
             THEN /\ blobs' = IF rmOk THEN blobs \ {ing.path} ELSE blobs
                  /\ ing' = [IngFail(ing, IF rmThrown THEN "cleanup"
                                                      ELSE "persistence")
                               EXCEPT !.rmFailed = ~rmOk \/ rmThrown]
             ELSE /\ blobs' = blobs
                  /\ rmOk /\ ~rmThrown
                  /\ ing' = IngFail(ing, "persistence")
  /\ UNCHANGED <<now, ext, batch, ocr,
                 knowledgeBase, sources, generations, questions,
                 generationItems, gen, nIngest, nGen, nSaves>>

\* addToKnowledgeBase(topicId, content, documentId).
AddKB(ok) ==
  /\ Answer(ok)
  /\ ing.pc = "addKB"
  /\ IF ok
     THEN /\ knowledgeBase' = Append(knowledgeBase,
                [topic |-> ing.topic, documentId |-> ing.docId])
          /\ ing' = [ing EXCEPT !.pc = "createSource",
                                !.kbId = Len(knowledgeBase) + 1]
     ELSE /\ knowledgeBase' = knowledgeBase
          /\ ing' = IngFail(ing, "persistence")
  /\ UNCHANGED <<now, ext, batch, ocr,
                 blobs, documents, sources, generations, questions,
                 generationItems, gen, nIngest, nGen, nSaves>>

\* The Source row an entry point asks createSource for.
\* processing_status TEXT DEFAULT 'completed': createSource does not set it.
\* (placeholder stands for metadata.hasTranscript === false.)
DefaultProcessingStatus == "completed"

SourceRowNoDocument(w) ==
  [topic |-> w.topic, documentId |-> Null, knowledgeBaseId |-> w.kbId,
   sourceType |-> w.kind, processingStatus |-> DefaultProcessingStatus,
   placeholder |-> w.placeholder, processedAt |-> now]

SourceRow(w) ==
  [topic |-> w.topic, documentId |-> w.docId, knowledgeBaseId |-> w.kbId,
   sourceType |-> w.kind, processingStatus |-> DefaultProcessingStatus,
   placeholder |-> w.placeholder, processedAt |-> now]

\* createSource({...}); processWebURL goes on to the chained generation.
\* Clock readings that pass between the client building the insert request
\* and the store inserting the row.
Latencies == {0, 1}

\* ingested_at TIMESTAMP WITH TIME ZONE DEFAULT NOW(): assigned by the store.
InsertedSource(row, at) == [ingestedAt |-> at] @@ row

CreateSource(ok) ==
  /\ Answer(ok)
  /\ ing.pc = "createSource"
  /\ IF ok
     THEN /\ \E d \in Latencies :
               /\ now' = now + d
               /\ sources' = Append(sources,
                                InsertedSource(SourceRow(ing), now + d))
          /\ ing' = IF ing.kind = "web"
                    THEN [ing EXCEPT !.pc = "generate",
                                     !.srcId = Len(sources) + 1]
                    ELSE [ing EXCEPT !.pc = "done", !.result = "success",
                                     !.srcId = Len(sources) + 1]
     ELSE /\ now' = now
          /\ sources' = sources
          /\ ing' = IngFail(ing, "persistence")
  /\ UNCHANGED <<ext, batch, ocr,
                 blobs, documents, knowledgeBase, generations, questions,
                 generationItems, gen, nIngest, nGen, nSaves>>

\* ------------------------------------------------------------ generation
\* getSources(topicId): the ids of the Sources of the topic.
getSources(topic) == {s \in Ids(sources) : sources[s].topic = topic}

\* getKnowledgeBase(topicId): every knowledge_base row of the topic.
getKnowledgeBase(topic) ==
  {k \in Ids(knowledgeBase) : knowledgeBase[k].topic = topic}

\* getKnowledgeBaseBySourceIds(topicId, sourceIds): the rows of the topic
\* whose document_id is one of the selected Sources' (every row of the topic
\* when none of them has a document), plus the rows the selected text
\* Sources reference directly.
getKnowledgeBaseBySourceIds(topic, sourceIds) ==
  LET sel == {s \in getSources(topic) : s \in sourceIds}
      documentIds == {sources[s].documentId : s \in sel} \ {Null}
      main == IF documentIds # {}
              THEN {k \in getKnowledgeBase(topic) :
                       knowledgeBase[k].documentId \in documentIds}
              ELSE getKnowledgeBase(topic)
      knowledgeBaseIds ==
        {sources[s].knowledgeBaseId :
            s \in {x \in sel : sources[x].sourceType = "text"}} \ {Null}
      textData == {k \in getKnowledgeBase(topic) : k \in knowledgeBaseIds}
  IN IF sel = {} THEN {} ELSE main \cup textData

\* The caller's ids taken as they are, without the filter.
validSourceIdsUnfiltered(requested, allSources) == requested

\* const validSourceIds = sourceIds.filter(id => allSources.some(...)).
validSourceIds(requested, allSources) == requested \cap allSources

\* The source ids a workflow attributes its Generation and items to.
ResolvedSourceIds(mode, topic, requested) ==
  CASE mode = "bulk" -> getSources(topic)
    [] mode = "selective" -> validSourceIds(requested, getSources(topic))
    [] OTHER -> {}

\* A workflow without the fail-fast test.
NoSourcesUnchecked(ids) == FALSE

\* if (!sources || sources.length === 0) throw ... /
\* if (validSourceIds.length === 0) throw ...
NoSources(ids) == ids = {}

\* The status createGeneration is called with.
CreateGenerationStatus == "processing"

\* The outer catch of a generation workflow: log, then rethrow.
GenFail(w, err) == [w EXCEPT !.pc = "done", !.result = "error", !.error = err]

\* A failure once the Generation exists: generateAIContent and
\* generateAIContentFromSources run their inner catch (updateGeneration to
\* failed); processDirectTextInput has one catch only, which logs and throws.
AfterFailure(w, err) ==
  IF w.mode = "direct_text" THEN GenFail(w, err)
  ELSE [w EXCEPT !.pc = "failUpdate", !.error = err]

GenBegin(mode, topic, requested, chained, ok) ==
  LET w == [IdleGen EXCEPT !.mode = mode, !.topic = topic,
                           !.requested = requested, !.chained = chained,
                           !.startTime = now,
                           !.qBefore = questions,
                           !.gBefore = Len(generations),
                           !.iBefore = Len(generationItems)]
  IN IF ok
     THEN [w EXCEPT !.pc = IF mode = "direct_text" THEN "callAI"
                           ELSE "resolve"]
     ELSE GenFail(w, "auth")

\* A client calls generateAIContent(topicId),
\* generateAIContentFromSources(topicId, sourceIds) or
\* processDirectTextInput(topicId, text): the user and the API key are read
\* first (and the pasted text is processed).
GenStart(mode, topic, requested, ok) ==
  /\ Answer(ok)
  /\ IngFree /\ GenFree
  /\ nGen < MaxGen
  /\ mode # "selective" => requested = {}
  /\ nGen' = nGen + 1
  /\ gen' = GenBegin(mode, topic, requested, FALSE, ok)
  /\ ing' = IdleIng
  /\ UNCHANGED <<now, ext, batch, ocr, stores, nIngest, nSaves>>

\* Step 1: load the topic's Sources, resolve the ids, fail fast when empty.
Resolve(ok) ==
  /\ Answer(ok)
  /\ gen.pc = "resolve"
  /\ LET ids == ResolvedSourceIds(gen.mode, gen.topic, gen.requested)
     IN gen' = IF ~ok THEN GenFail(gen, "persistence")
               ELSE IF NoSources(ids) THEN GenFail(gen, "nosources")
               ELSE [gen EXCEPT !.pc = "loadKB", !.sourceIds = ids]
  /\ UNCHANGED <<now, ext, batch, ocr, stores, ing, nIngest, nGen, nSaves>>

\* Step 2: load the knowledge base content to send.
LoadKB(ok) ==
  /\ Answer(ok)
  /\ gen.pc = "loadKB"
  /\ LET kb == IF gen.mode = "bulk" THEN getKnowledgeBase(gen.topic)
               ELSE getKnowledgeBaseBySourceIds(gen.topic, gen.sourceIds)
     IN gen' = IF ~ok THEN GenFail(gen, "persistence")
               ELSE IF gen.mode = "selective" /\ kb = {}
                    THEN GenFail(gen, "nocontent")
               ELSE [gen EXCEPT !.pc = "createGen", !.kb = kb]
  /\ UNCHANGED <<now, ext, batch, ocr, stores, ing, nIngest, nGen, nSaves>>

\* The row createGeneration inserts.
GenerationRow(w) ==
  [topic |-> w.topic, generationType |-> w.mode,
   sourceIds |-> IF w.mode = "direct_text" THEN {} ELSE w.sourceIds,
   status |-> CreateGenerationStatus, itemsGenerated |-> 0,
   errorMessage |-> FALSE, startedAt |-> now, completedAt |-> NoTime,
   processingTimeMs |-> NoTime]

\* Steps 3-4: getTopic, then createGeneration (for pasted text: after the
\* completion service has answered).
CreateGen(ok) ==
  /\ Answer(ok)
  /\ gen.pc = "createGen"
  /\ IF ok
     THEN /\ generations' = Append(generations, GenerationRow(gen))
          /\ gen' = [gen EXCEPT !.genId = Len(generations) + 1,
                       !.pc = IF gen.mode = "direct_text" THEN "addQuestions"
                              ELSE "callAI"]
     ELSE /\ generations' = generations
          /\ gen' = GenFail(gen, "persistence")
  /\ UNCHANGED <<now, ext, batch, ocr,
                 blobs, documents, knowledgeBase, sources, questions,
                 generationItems, ing, nIngest, nGen, nSaves>>

\* Step 5: fileProcessingService.generateAIContent.  ok: the API answers
\* with JSON that parses; n: the items of its four collections together.
\* It throws on an API error, on an unparseable answer, and when
\* allContent.length === 0.
CallAI(ok, n) ==
  /\ Answer(ok /\ n # 0)
  /\ gen.pc = "callAI"
  /\ ~ok => n = 0
  /\ LET w == [gen EXCEPT !.aiCalled = TRUE, !.emptyResponse = ok /\ n = 0]
     IN gen' = IF ~ok \/ n = 0
               THEN AfterFailure(w, "generation")
               ELSE [w EXCEPT !.nItems = n,
                      !.pc = IF gen.mode = "direct_text" THEN "createGen"
                             ELSE "addQuestions"]
  /\ UNCHANGED <<now, ext, batch, ocr, stores, ing, nIngest, nGen, nSaves>>

\* Attribution by the ids the caller sent instead of the resolved ones.
AttributionArgRequested(w) ==
  IF w.mode = "direct_text" THEN {} ELSE w.requested

\* The source ids a workflow hands to addQuestionsWithGeneration and to
\* createGenerationItems.
AttributionArg(w) == IF w.mode = "direct_text" THEN {} ELSE w.sourceIds

\* addQuestionsWithGeneration(topicId, questions, generationId, sourceIds):
\* one insert of all the rows.
addQuestionsWithGeneration(topic, n, generationId, sourceIds) ==
  [i \in 1..n |-> [topic |-> topic, generationId |-> generationId,
                   sourceAttribution |-> sourceIds, isSaved |-> FALSE]]

\* Step 6.
AddQuestions(ok) ==
  /\ Answer(ok)
  /\ gen.pc = "addQuestions"
  /\ IF ok
     THEN /\ questions' = questions \o addQuestionsWithGeneration(
                 gen.topic, gen.nItems, gen.genId, AttributionArg(gen))
          /\ gen' = [gen EXCEPT !.pc = "createItems",
                       !.qIds = (Len(questions) + 1)..
                                (Len(questions) + gen.nItems)]
     ELSE /\ questions' = questions
          /\ gen' = AfterFailure(gen, "persistence")
  /\ UNCHANGED <<now, ext, batch, ocr,
                 blobs, documents, knowledgeBase, sources, generations,
                 generationItems, ing, nIngest, nGen, nSaves>>

\* createGenerationItems(generationId, questions, sourceIds): one row per
\* inserted Question, in one insert.
createGenerationItems(generationId, qFirst, n, sourceIds) ==
  [i \in 1..n |-> [generationId |-> generationId,
                   questionId |-> qFirst + i - 1,
                   derivedFromSources |-> sourceIds]]

\* Step 7.
CreateItems(ok) ==
  /\ Answer(ok)
  /\ gen.pc = "createItems"
  /\ IF ok
     THEN /\ generationItems' = generationItems \o createGenerationItems(
                 gen.genId, Len(questions) - gen.nItems + 1, gen.nItems,
                 AttributionArg(gen))
          /\ gen' = [gen EXCEPT !.pc = "finalize"]
     ELSE /\ generationItems' = generationItems
          /\ gen' = AfterFailure(gen, "persistence")
  /\ UNCHANGED <<now, ext, batch, ocr,
                 blobs, documents, knowledgeBase, sources, generations,
                 questions, ing, nIngest, nGen, nSaves>>

\* updateGeneration(generationId, updates): the row is updated whatever its
\* current status.  The payload is {...updates} plus the columns the
\* function maps itself: items_generated, processing_time_ms and
\* error_message from the keys of the same name in camel case, and
\* completed_at = now only for status completed without updates.completedAt.
\* The key completedAt of updates names no column and writes none.
updateGeneration(generationId, updates) ==
  [generations EXCEPT ![generationId] =
     [@ EXCEPT !.status = updates.status,
               !.itemsGenerated = IF updates.itemsGenerated = Null
                                  THEN @ ELSE updates.itemsGenerated,
               !.errorMessage = IF updates.errorMessage THEN TRUE ELSE @,
               !.processingTimeMs = IF updates.processingTimeMs = NoTime
                                    THEN @ ELSE updates.processingTimeMs,
               !.completedAt = IF /\ updates.status = "completed"
                                  /\ updates.completedAt = NoTime
                               THEN now ELSE @]]

\* The updates of step 8.  processDirectTextInput passes no
\* processingTimeMs.
CompletedUpdates(w) ==
  [status |-> "completed", itemsGenerated |-> w.nItems,
   errorMessage |-> FALSE, completedAt |-> now,
   processingTimeMs |-> IF w.mode = "direct_text" THEN NoTime
                        ELSE now - w.startTime]

\* The updates of the inner catch.
FailedUpdates ==
  [status |-> "failed", itemsGenerated |-> Null, errorMessage |-> TRUE,
   completedAt |-> now, processingTimeMs |-> NoTime]

\* Step 8: the final update to completed.
Finalize(ok) ==
  /\ Answer(ok)
  /\ gen.pc = "finalize"
  /\ IF ok
     THEN /\ generations' = updateGeneration(gen.genId,
                                              CompletedUpdates(gen))
          /\ gen' = [gen EXCEPT !.pc = "done", !.result = "success"]
     ELSE /\ generations' = generations
          /\ gen' = AfterFailure(gen, "persistence")
  /\ UNCHANGED <<now, ext, batch, ocr,
                 blobs, documents, knowledgeBase, sources, questions,
                 generationItems, ing, nIngest, nGen, nSaves>>

\* The inner catch: updateGeneration to failed, then rethrow; when that
\* update throws, its error is the one that leaves the catch block.
FailUpdate(ok) ==
  /\ Answer(ok)
  /\ gen.pc = "failUpdate"
  /\ IF ok
     THEN /\ generations' = updateGeneration(gen.genId, FailedUpdates)
          /\ gen' = GenFail(gen, gen.error)
     ELSE /\ generations' = generations
          /\ gen' = GenFail(gen, "persistence")
  /\ UNCHANGED <<now, ext, batch, ocr,
                 blobs, documents, knowledgeBase, sources, questions,
                 generationItems, ing, nIngest, nGen, nSaves>>

\* processWebURL step 5: generateAIContentFromSources(topicId,
\* [sourceEntry.id]), awaited inside the ingestion's try block.
WebChainStart(ok) ==
  /\ Answer(ok)
  /\ ing.pc = "generate"
  /\ GenFree
  /\ gen' = GenBegin("selective", ing.topic, {ing.srcId}, TRUE, ok)
  /\ ing' = [ing EXCEPT !.pc = "awaitGen"]
  /\ UNCHANGED <<now, ext, batch, ocr, stores, nIngest, nGen, nSaves>>

WebChainReturn ==
  /\ ing.pc = "awaitGen"
  /\ nFaults' = nFaults
  /\ gen.pc = "done"
  /\ ing' = IF gen.result = "success"
            THEN [ing EXCEPT !.pc = "done", !.result = "success"]
            ELSE IngFail(ing, "generation")
  /\ UNCHANGED <<now, ext, batch, ocr, stores, gen, nIngest, nGen, nSaves>>

\* saveQuestion(questionId): update({ is_saved: true }).
saveQuestion(questionId) ==
  [questions EXCEPT ![questionId] = [@ EXCEPT !.isSaved = TRUE]]

\* (A failed update leaves the row as it is and is not modelled.)
SaveQuestion(q) ==
  /\ nSaves < MaxSaves
  /\ q \in Ids(questions)
  /\ nSaves' = nSaves + 1
  /\ nFaults' = nFaults
  /\ questions' = saveQuestion(q)
  /\ UNCHANGED <<now, ext, batch, ocr,
                 blobs, documents, knowledgeBase, sources, generations,
                 generationItems, ing, gen, nIngest, nGen>>

\* The topic the client works on; t2 only holds the foreign Source.
ClientTopics == {"t1"}

\* The id lists a client may pass to selective generation.
Requests == SUBSET (Ids(sources) \cup {UnknownId})

\* The steps of a generation workflow, whoever started it.
GenSteps ==
  \/ \E ok \in BOOLEAN : Resolve(ok)
  \/ \E ok \in BOOLEAN : LoadKB(ok)
  \/ \E ok \in BOOLEAN : CreateGen(ok)
  \/ \E ok \in BOOLEAN, n \in 0..MaxItems : CallAI(ok, n)
  \/ \E ok \in BOOLEAN : AddQuestions(ok)
  \/ \E ok \in BOOLEAN : CreateItems(ok)
  \/ \E ok \in BOOLEAN : Finalize(ok)
  \/ \E ok \in BOOLEAN : FailUpdate(ok)

\* Ingestion: a client calls the four entry points, one call at a time; the
\* generation workflow runs only as the one chained after a web ingestion.
Next ==
  \/ \E k \in Kinds, t \in ClientTopics, valid, ok \in BOOLEAN :
        nIngest < MaxIngest /\ ProcessStart(k, t, valid, ok)
  \/ \E ok \in BOOLEAN : Extract(ok)
  \/ \E ok \in BOOLEAN : Upload(ok)
  \/ \E ok \in BOOLEAN : AuthCheck(ok)
  \/ \E ok, rmOk, rmThrown \in BOOLEAN : InsertDoc(ok, rmOk, rmThrown)
  \/ \E ok \in BOOLEAN : AddKB(ok)
  \/ \E ok \in BOOLEAN : CreateSource(ok)
  \/ \E ok \in BOOLEAN : WebChainStart(ok)
  \/ WebChainReturn
  \/ GenSteps

Spec == Init /\ [][Next]_vars

\* Generation: a client ingests pasted text (processTextContent), calls the
\* three generation entry points and saves questions, one call at a time.
NextGen ==
  \/ \E t \in ClientTopics, ok \in BOOLEAN :
        nIngest < MaxPaste /\ ProcessStart("text", t, TRUE, ok)
  \/ \E ok \in BOOLEAN : InsertDoc(ok, TRUE, FALSE)
  \/ \E ok \in BOOLEAN : AddKB(ok)
  \/ \E ok \in BOOLEAN : CreateSource(ok)
  \/ \E m \in Modes, t \in ClientTopics, r \in Requests, ok \in BOOLEAN :
        GenStart(m, t, r, ok)
  \/ GenSteps
  \/ \E q \in Ids(questions) : SaveQuestion(q)

SpecGen == Init /\ [][NextGen]_vars

\* Generation on a topic that several processTextContent calls, failed ones
\* among them, have written to.
NextKB ==
  \/ \E t \in ClientTopics, ok \in BOOLEAN :
        nIngest < MaxIngest /\ ProcessStart("text", t, TRUE, ok)
  \/ NextGen

SpecKB == Init /\ [][NextKB]_vars

\* The service exports updateGeneration: a caller may invoke it on any
\* Generation row, between workflows, with either terminal status.
ApiUpdateGeneration(g, st) ==
  /\ IngFree /\ GenFree
  /\ g \in Ids(generations)
  /\ generations' = updateGeneration(g,
        [status |-> st, itemsGenerated |-> Null,
         errorMessage |-> (st = "failed"), completedAt |-> NoTime,
         processingTimeMs |-> NoTime])
  /\ UNCHANGED <<now, ext, batch, ocr,
                 blobs, documents, knowledgeBase, sources, questions,
                 generationItems, ing, gen, nIngest, nGen, nSaves, nFaults>>

NextApi ==
  \/ NextGen
  \/ \E g \in Ids(generations), st \in {"completed", "failed"} :
        ApiUpdateGeneration(g, st)

SpecApi == Init /\ [][NextApi]_vars

\* ------------------------------------------------------ text extraction
\* A text is a sequence of characters: "w" a word character, " " a
\* whitespace character, "T" a bracketed annotation such as [Music].
Chars == {"w", " ", "T"}

Texts == UNION {[1..n -> Chars] : n \in 0..MaxLen}

\* textContent.trim().length < 10 in processDirectText.
MinDirectLength == 10

\* The inputs: the short texts, and each of them after a word long enough
\* for processDirectText to accept it.
Inputs == Texts \cup {[i \in 1..MinDirectLength |-> "w"] \o t : t \in Texts}

Strategies == {"youtube", "paste", "direct", "textfile"}

IsSpace(c) == c = " "

RECURSIVE TrimStart(_)
TrimStart(t) ==
  IF t # <<>> /\ IsSpace(Head(t)) THEN TrimStart(Tail(t)) ELSE t

RECURSIVE TrimEnd(_)
TrimEnd(t) ==
  IF t # <<>> /\ IsSpace(t[Len(t)])
  THEN TrimEnd(SubSeq(t, 1, Len(t) - 1)) ELSE t

\* String.prototype.trim.
Trim(t) == TrimEnd(TrimStart(t))

\* text.split(/\s+/).length: one piece more than there are runs of
\* whitespace, the empty pieces before a leading and after a trailing run
\* included.
SplitLength(t) ==
  Cardinality({i \in 1..Len(t) :
                 IsSpace(t[i]) /\ (i = 1 \/ ~IsSpace(t[i - 1]))}) + 1

\* .replace(/\[.*?\]/g, '').
RemoveBracketed(t) == SelectSeq(t, LAMBDA c : c # "T")

\* .replace(/\s+/g, ' ').
RECURSIVE CollapseSpaces(_)
CollapseSpaces(t) ==
  IF Len(t) < 2 THEN t
  ELSE IF IsSpace(t[1]) /\ IsSpace(t[2]) THEN CollapseSpaces(Tail(t))
  ELSE <<Head(t)>> \o CollapseSpaces(Tail(t))

\* transcript.map(entry => entry.text).join(' ').
JoinSegments(segs) ==
  IF segs = <<>> THEN <<>>
  ELSE [i \in 1..(2 * Len(segs) - 1) |->
          IF i % 2 = 1 THEN segs[(i + 1) \div 2] ELSE " "]

\* The fallback text of extractYouTubeTranscript: "[YouTube Video: url]"
\* followed by the notice.
FallbackText == <<"T", " ", "w", " ", "w">>

\* What processDirectText puts before and after the trimmed input.
DirectHeader == <<"T", " ", "w", " ">>
DirectFooter == <<" ", "w", " ", "w">>

Returned(text, wordCount, hasTranscript) ==
  [thrown |-> FALSE, text |-> text, wordCount |-> wordCount,
   hasTranscript |-> hasTranscript]

Thrown == [thrown |-> TRUE, text |-> <<>>, wordCount |-> 0,
           hasTranscript |-> FALSE]

\* extractYouTubeTranscript: a failed or empty fetch goes to the catch block
\* and returns the fallback; otherwise the segments are joined and cleaned.
extractYouTubeTranscript(fetched, transcript) ==
  IF ~fetched \/ Len(transcript) = 0
  THEN Returned(FallbackText, SplitLength(FallbackText), FALSE)
  ELSE LET fullText ==
             Trim(CollapseSpaces(RemoveBracketed(JoinSegments(transcript))))
       IN Returned(fullText, SplitLength(fullText), TRUE)

\* The extractedContent object processTextContent builds from contentText.
processTextContentExtracted(contentText) ==
  Returned(contentText, SplitLength(contentText), FALSE)

\* processDirectText.
processDirectText(textContent) ==
  IF Len(Trim(textContent)) < MinDirectLength THEN Thrown
  ELSE LET cleanText == Trim(textContent)
       IN Returned(DirectHeader \o cleanText \o DirectFooter,
                   SplitLength(cleanText), FALSE)

\* extractTextFromTextFile, for a plain text file.
extractTextFromTextFile(text) ==
  IF Trim(text) = <<>> THEN Thrown
  ELSE Returned(text, SplitLength(text), FALSE)

ExtractionResult(strategy, fetched, input) ==
  CASE strategy = "youtube" -> extractYouTubeTranscript(fetched, input)
    [] strategy = "paste" -> processTextContentExtracted(input)
    [] strategy = "direct" -> processDirectText(input)
    [] OTHER -> extractTextFromTextFile(input)

\* The extraction runs.
ExtractText ==
  /\ ext.pc = "input"
  /\ LET r == ExtractionResult(ext.strategy, ext.fetched, ext.input)
     IN ext' = [ext EXCEPT !.pc = IF r.thrown THEN "thrown" ELSE "returned",
                           !.text = r.text, !.wordCount = r.wordCount,
                           !.hasTranscript = r.hasTranscript]
  /\ UNCHANGED <<now, batch, ocr,
                 stores, ing, gen, nIngest, nGen, nSaves, nFaults>>

\* addToKnowledgeBase: content: content.extractedText || content.content.
\* An empty extractedText is falsy and content.content is undefined, which
\* leaves the column NULL.
StoreKnowledgeBaseContent ==
  /\ ext.pc = "returned"
  /\ ext.strategy # "direct"
  /\ ext' = [ext EXCEPT !.pc = "stored",
                        !.kbNull = (ext.text = <<>>),
                        !.kbContent = ext.text]
  /\ UNCHANGED <<now, batch, ocr,
                 stores, ing, gen, nIngest, nGen, nSaves, nFaults>>

InitText ==
  /\ blobs = {} /\ documents = <<>> /\ knowledgeBase = <<>>
  /\ sources = <<>> /\ generations = <<>> /\ questions = <<>>
  /\ generationItems = <<>>
  /\ ing = IdleIng /\ gen = IdleGen
  /\ nIngest = 0 /\ nGen = 0 /\ nSaves = 0 /\ nFaults = 0 /\ now = 0
  /\ batch = IdleBatch /\ ocr = IdleOcr
  /\ \E s \in Strategies, t \in Inputs, f \in BOOLEAN :
       /\ ~f => s = "youtube"
       /\ ext = [IdleExt EXCEPT !.pc = "input", !.strategy = s,
                                !.input = t, !.fetched = f]

NextText == ExtractText \/ StoreKnowledgeBaseContent

SpecText == InitText /\ [][NextText]_vars

\* -------------------------------------------------------- file routing
\* file.type values: one per extraction strategy, the three legacy office
\* types, and the empty type of a file the browser does not recognise.
FileTypes ==
  {"audio/mpeg", "application/pdf", "docx-type", "pptx-type", "xlsx-type",
   "application/msword", "application/vnd.ms-powerpoint",
   "application/vnd.ms-excel", "text/csv", "image/png", "text/plain", ""}

\* The extension file.name ends with ("bin": one that no test mentions).
FileNames ==
  {"mp3", "pdf", "docx", "pptx", "xlsx", "doc", "ppt", "xls", "csv", "png",
   "txt", "bin"}

\* legacyFormat === 'DOC' ? 'DOCX' : legacyFormat === 'PPT' ? 'PPTX' : 'XLSX'.
ModernFormat(fileName) ==
  IF fileName = "doc" THEN "DOCX"
  ELSE IF fileName = "ppt" THEN "PPTX" ELSE "XLSX"

\* processFile: the tests in the order they are written, each on file.type
\* or on the extension of file.name; the first that holds selects the
\* extractor.  The legacy test throws.
processFile(fileType, fileName) ==
  CASE fileType = "audio/mpeg" \/ fileName = "mp3" -> "audio"
    [] fileType = "application/pdf" \/ fileName = "pdf" -> "pdf"
    [] fileType = "docx-type" \/ fileName = "docx" -> "word"
    [] fileType = "pptx-type" \/ fileName = "pptx" -> "powerpoint"
    [] fileType = "xlsx-type" \/ fileName = "xlsx" -> "excel"
    [] fileName \in {"doc", "ppt", "xls"} -> "legacy"
    [] fileType = "text/csv" \/ fileName = "csv" -> "csv"
    [] fileType = "image/png" -> "image"
    [] fileType \in {"text/csv", "text/plain"} \/ fileName = "txt" -> "text"
    [] OTHER -> "fallback"

\* fileProcessingService.processFile(file), the first step of
\* processFileUpload.
RouteFile ==
  /\ ext.pc = "file"
  /\ LET x == processFile(ext.fileType, ext.fileName)
     IN ext' = IF x = "legacy"
               THEN [ext EXCEPT !.pc = "thrown", !.extractor = x,
                                !.message = ModernFormat(ext.fileName)]
               ELSE [ext EXCEPT !.pc = "routed", !.extractor = x]
  /\ UNCHANGED <<now, batch, ocr,
                 stores, ing, gen, nIngest, nGen, nSaves, nFaults>>

\* The rest of processFileUpload, reached when processFile returned: upload,
\* Document, knowledge-base entry, Source.
PersistFile ==
  /\ ext.pc = "routed"
  /\ ext' = [ext EXCEPT !.pc = "persisted"]
  /\ UNCHANGED <<now, batch, ocr,
                 stores, ing, gen, nIngest, nGen, nSaves, nFaults>>

InitFile ==
  /\ blobs = {} /\ documents = <<>> /\ knowledgeBase = <<>>
  /\ sources = <<>> /\ generations = <<>> /\ questions = <<>>
  /\ generationItems = <<>>
  /\ ing = IdleIng /\ gen = IdleGen
  /\ nIngest = 0 /\ nGen = 0 /\ nSaves = 0 /\ nFaults = 0 /\ now = 0
  /\ batch = IdleBatch /\ ocr = IdleOcr
  /\ \E t \in FileTypes, n \in FileNames :
       ext = [IdleExt EXCEPT !.pc = "file", !.fileType = t, !.fileName = n]

NextFile == RouteFile \/ PersistFile

SpecFile == InitFile /\ [][NextFile]_vars

\* ---------------------------------------------------- document deletion
\* deleteDocument(documentId).  Ids are indexes, so a deleted row keeps its
\* place and is marked by the topic "deleted", which no query selects.
DeletedRow(row) == [row EXCEPT !.topic = "deleted"]

DocumentExists(d) == d \in Ids(documents) /\ documents[d].topic # "deleted"

\* ON DELETE CASCADE of knowledge_base.document_id and sources.document_id.
CascadeDelete(table, d) ==
  [i \in Ids(table) |->
     IF table[i].documentId = d THEN DeletedRow(table[i]) ELSE table[i]]

\* Outcomes of storage.remove([doc.storage_path]): the blob is removed, an
\* error is returned, or the call rejects.
RemoveOutcomes == {"removed", "error", "thrown"}

\* Entry: supabase.auth.getUser(), before the try block.  before.doc is
\* the number of Documents with that id when the call is made.
DeleteStart(d, ok) ==
  /\ Answer(ok)
  /\ IngFree /\ GenFree
  /\ d \in Ids(documents)
  /\ LET w == [IdleIng EXCEPT !.kind = "delete", !.docId = d,
                               !.before.doc = IF DocumentExists(d) THEN 1
                                              ELSE 0]
     IN ing' = IF ok THEN [w EXCEPT !.pc = "deleteFetch"]
               ELSE IngFail(w, "auth")
  /\ gen' = IdleGen
  /\ UNCHANGED <<now, ext, batch, ocr, stores, nIngest, nGen, nSaves>>

\* select('storage_path, topic_id') ... .single(): a fetch error (also when
\* no row matches) is thrown; the blob is removed only if (doc.storage_path).
DeleteFetch(ok) ==
  /\ Answer(ok)
  /\ ing.pc = "deleteFetch"
  /\ ing' = IF ~DocumentExists(ing.docId) THEN IngFail(ing, "notFound")
            ELSE IF ~ok THEN IngFail(ing, "persistence")
            ELSE [ing EXCEPT !.path = documents[ing.docId].storagePath,
                             !.pc = IF documents[ing.docId].storagePath = Null
                                    THEN "deleteRow" ELSE "deleteBlob"]
  /\ UNCHANGED <<now, ext, batch, ocr, stores, gen, nIngest, nGen, nSaves>>

\* storage.remove([doc.storage_path]): a returned error is logged as a
\* warning and the deletion goes on; a rejection goes to the catch block.
DeleteBlob(outcome) ==
  /\ Answer(outcome = "removed")
  /\ ing.pc = "deleteBlob"
  /\ blobs' = IF outcome = "removed" THEN blobs \ {ing.path} ELSE blobs
  /\ ing' = IF outcome = "thrown" THEN IngFail(ing, "storage")
            ELSE [ing EXCEPT !.pc = "deleteRow",
                             !.rmFailed = outcome = "error"]
  /\ UNCHANGED <<now, ext, batch, ocr, documents, knowledgeBase, sources,
                 generations, questions, generationItems, gen, nIngest, nGen,
                 nSaves>>

\* from('documents').delete(): on error throw, otherwise { success: true }.
DeleteRow(ok) ==
  /\ Answer(ok)
  /\ ing.pc = "deleteRow"
  /\ IF ok
     THEN /\ documents' = [documents EXCEPT
                             ![ing.docId] = DeletedRow(documents[ing.docId])]
          /\ knowledgeBase' = CascadeDelete(knowledgeBase, ing.docId)
          /\ sources' = CascadeDelete(sources, ing.docId)
          /\ ing' = [ing EXCEPT !.pc = "done", !.result = "success"]
     ELSE /\ UNCHANGED <<documents, knowledgeBase, sources>>
          /\ ing' = IngFail(ing, "persistence")
  /\ UNCHANGED <<now, ext, batch, ocr, blobs, generations, questions,
                 generationItems, gen, nIngest, nGen, nSaves>>

\* A client uploads files, pastes text and adds videos, and deletes
\* Documents, one call at a time.
NextDelete ==
  \/ \E k \in {"file", "text", "youtube"}, t \in ClientTopics,
        ok \in BOOLEAN :
        nIngest < MaxIngest /\ ProcessStart(k, t, TRUE, ok)
  \/ \E ok \in BOOLEAN : Extract(ok)
  \/ \E ok \in BOOLEAN : Upload(ok)
  \/ \E ok \in BOOLEAN : AuthCheck(ok)
  \/ \E ok, rmOk, rmThrown \in BOOLEAN : InsertDoc(ok, rmOk, rmThrown)
  \/ \E ok \in BOOLEAN : AddKB(ok)
  \/ \E ok \in BOOLEAN : CreateSource(ok)
  \/ \E d \in Ids(documents), ok \in BOOLEAN : DeleteStart(d, ok)
  \/ \E ok \in BOOLEAN : DeleteFetch(ok)
  \/ \E outcome \in RemoveOutcomes : DeleteBlob(outcome)
  \/ \E ok \in BOOLEAN : DeleteRow(ok)

SpecDelete == Init /\ [][NextDelete]_vars

\* ------------------------------------------------------ network fetches
\* The requests extractYouTubeTranscript (YoutubeTranscript.fetchTranscript)
\* and processWebURL (fetch of the page through the proxy) wait for.
\* setTimeout(..., 30000), in clock readings of 10 s.
FetchTimeout == 3

NetStrategies == {"youtube", "web"}

\* What the remote side does with a request: answer it, fail it (an error
\* status, a refused connection), or never respond.
Remotes == {"answers", "fails", "silent"}

IdleFetch ==
  [pc |-> "idle", strategy |-> "none", remote |-> "none", startedAt |-> 0,
   placeholder |-> FALSE]

\* Whether the strategy races its request against a timer:
\* extractYouTubeTranscript awaits Promise.race([transcriptPromise,
\* timeoutPromise]); processWebURL awaits fetch(proxyUrl) alone, without
\* timer or abort signal.
HasTimeout(strategy) == strategy = "youtube"

\* The strategy's catch block: a placeholder is returned, or the error is
\* thrown again.
FetchFailed(w) ==
  IF HasFallback(w.strategy)
  THEN [w EXCEPT !.pc = "returned", !.placeholder = TRUE]
  ELSE [w EXCEPT !.pc = "thrown"]

\* An extraction sends its request.
StartFetch(strategy, remote) ==
  /\ ext.pc \in {"idle", "returned", "thrown"}
  /\ now + FetchTimeout <= MaxClock
  /\ ext' = [IdleFetch EXCEPT !.pc = "fetching", !.strategy = strategy,
                              !.remote = remote, !.startedAt = now]
  /\ UNCHANGED <<now, batch, ocr,
                 stores, ing, gen, nIngest, nGen, nSaves, nFaults>>

\* The response arrives and the extraction returns the text.
RemoteAnswers ==
  /\ ext.pc = "fetching"
  /\ ext.remote = "answers"
  /\ ext' = [ext EXCEPT !.pc = "returned"]
  /\ UNCHANGED <<now, batch, ocr,
                 stores, ing, gen, nIngest, nGen, nSaves, nFaults>>

\* The request is rejected.
RemoteFails ==
  /\ ext.pc = "fetching"
  /\ ext.remote = "fails"
  /\ ext' = FetchFailed(ext)
  /\ UNCHANGED <<now, batch, ocr,
                 stores, ing, gen, nIngest, nGen, nSaves, nFaults>>

\* The timer of the race rejects: 'Transcript fetch timeout after 30
\* seconds'.
TimeoutFires ==
  /\ ext.pc = "fetching"
  /\ HasTimeout(ext.strategy)
  /\ now - ext.startedAt >= FetchTimeout
  /\ ext' = FetchFailed(ext)
  /\ UNCHANGED <<now, batch, ocr,
                 stores, ing, gen, nIngest, nGen, nSaves, nFaults>>

Tick ==
  /\ now < MaxClock
  /\ now' = now + 1
  /\ UNCHANGED <<ext, batch, ocr,
                 stores, ing, gen, nIngest, nGen, nSaves, nFaults>>

InitNet ==
  /\ blobs = {} /\ documents = <<>> /\ knowledgeBase = <<>>
  /\ sources = <<>> /\ generations = <<>> /\ questions = <<>>
  /\ generationItems = <<>>
  /\ ing = IdleIng /\ gen = IdleGen
  /\ nIngest = 0 /\ nGen = 0 /\ nSaves = 0 /\ nFaults = 0
  /\ now = 0
  /\ batch = IdleBatch /\ ocr = IdleOcr
  /\ ext = IdleFetch

NextNet ==
  \/ \E st \in NetStrategies, r \in Remotes : StartFetch(st, r)
  \/ RemoteAnswers
  \/ RemoteFails
  \/ TimeoutFires
  \/ Tick

\* Time passes, a pending timer callback runs, and a response or rejection
\* the remote side has sent is delivered to the waiting extraction.
SpecNet ==
  /\ InitNet /\ [][NextNet]_vars
  /\ WF_vars(Tick) /\ WF_vars(TimeoutFires)
  /\ WF_vars(RemoteAnswers) /\ WF_vars(RemoteFails)

\* ---------------------------------------------------- batches of files
\* handleFiles(files) of the upload component: the session is read, then
\* for (const file of files) { ... await dataService.ingest({ topicId, file })
\* ... }.  A file is pending, inflight (its ingest awaited), returned or
\* failed.

\* Every pending file may start: the files ingested all at once.
MayStartAll(b, i) == b.files[i] = "pending"

\* The loop reaches file i when the awaits of all files before it have
\* returned a result.
MayStart(b, i) ==
  /\ b.files[i] = "pending"
  /\ \A j \in 1..(i - 1) : b.files[j] = "returned"

\* if (!files || files.length === 0) return; otherwise the session check
\* comes first.
HandleFiles(n) ==
  /\ batch.pc \in {"idle", "done"}
  /\ batch' = IF n = 0
              THEN [batch EXCEPT !.pc = "done", !.files = <<>>,
                                 !.results = <<>>]
              ELSE [batch EXCEPT !.pc = "session",
                                 !.files = [i \in 1..n |-> "pending"],
                                 !.results = <<>>]
  /\ UNCHANGED <<now, ext, ocr, stores, ing, gen, nIngest, nGen, nSaves,
                 nFaults>>

\* supabase.auth.getSession(): without session an alert and return; with
\* one, setLoading(true), setUploadStatus(null) and the loop.
SessionCheck(ok) ==
  /\ batch.pc = "session"
  /\ batch' = IF ok
              THEN [batch EXCEPT !.pc = "loop", !.loading = TRUE,
                                 !.uploadStatus = "none"]
              ELSE [batch EXCEPT !.pc = "done"]
  /\ UNCHANGED <<now, ext, ocr, stores, ing, gen, nIngest, nGen, nSaves,
                 nFaults>>

\* The loop calls dataService.ingest for file i and awaits it.
StartIngest(i) ==
  /\ batch.pc = "loop"
  /\ i \in DOMAIN batch.files
  /\ MayStart(batch, i)
  /\ batch' = [batch EXCEPT !.files[i] = "inflight"]
  /\ UNCHANGED <<now, ext, ocr, stores, ing, gen, nIngest, nGen, nSaves,
                 nFaults>>

\* The ingest of file i settles.  A result is pushed to results; after the
\* last one the success status is set.  An error leaves the loop for the
\* catch block.  finally: setLoading(false).
IngestReturns(i, ok, words) ==
  /\ batch.pc = "loop"
  /\ i \in DOMAIN batch.files
  /\ batch.files[i] = "inflight"
  /\ LET files == [batch.files EXCEPT ![i] = IF ok THEN "returned"
                                                   ELSE "failed"]
         finished == \A j \in DOMAIN files : files[j] = "returned"
     IN batch' =
          IF ~ok
          THEN [batch EXCEPT !.files = files, !.pc = "done",
                             !.loading = FALSE, !.uploadStatus = "error"]
          ELSE IF finished
          THEN [batch EXCEPT !.files = files, !.pc = "done",
                             !.results = Append(@, words),
                             !.loading = FALSE, !.uploadStatus = "success"]
          ELSE [batch EXCEPT !.files = files,
                             !.results = Append(@, words)]
  /\ UNCHANGED <<now, ext, ocr, stores, ing, gen, nIngest, nGen, nSaves,
                 nFaults>>

NextBatch ==
  \/ \E n \in 0..MaxFiles : HandleFiles(n)
  \/ \E ok \in BOOLEAN : SessionCheck(ok)
  \/ \E i \in 1..MaxFiles : StartIngest(i)
  \/ \E i \in 1..MaxFiles, ok \in BOOLEAN, words \in 0..MaxWords :
        IngestReturns(i, ok, words)

SpecBatch == Init /\ [][NextBatch]_vars

\* ------------------------------------------------------------ OCR worker
\* fileProcessingService is one object shared by all workflows; its field
\* ocrWorker is the worker initializeOCR created last.  ocr.live is the set
\* of workers created and not terminated.  A workflow is the ingestion of an
\* image (processFileUpload -> processFile -> extractTextFromImage) or a
\* generation (generateAIContent, generateAIContentFromSources), whose
\* finally block awaits terminateOCR().  Workflows interleave at their
\* awaits.
FlowKinds == {"image", "generation"}

Flows == DOMAIN ocr.flows

\* A workflow is started by the client.
StartFlow(kind) ==
  /\ Len(ocr.flows) < MaxFlows
  /\ ocr' = [ocr EXCEPT !.flows = Append(@,
                [kind |-> kind,
                 pc |-> IF kind = "image" THEN "init" ELSE "finally",
                 acquired |-> Null, using |-> Null, result |-> "none"])]
  /\ UNCHANGED <<now, ext, batch, stores, ing, gen, nIngest, nGen, nSaves,
                 nFaults>>

\* initializeOCR(): if (!this.ocrWorker) the worker is created (an await);
\* otherwise the existing one is returned.
initializeOCR(f) ==
  /\ f \in Flows
  /\ ocr.flows[f].pc = "init"
  /\ ocr' = [ocr EXCEPT !.flows[f].pc = IF ocr.ocrWorker = Null
                                        THEN "creating" ELSE "recognize"]
  /\ UNCHANGED <<now, ext, batch, stores, ing, gen, nIngest, nGen, nSaves,
                 nFaults>>

\* this.ocrWorker = await createWorker('eng').
WorkerCreated(f) ==
  /\ f \in Flows
  /\ ocr.flows[f].pc = "creating"
  /\ LET w == ocr.created + 1
     IN ocr' = [ocr EXCEPT !.created = w, !.live = @ \cup {w},
                           !.ocrWorker = w,
                           !.flows[f].acquired = w,
                           !.flows[f].pc = "recognize"]
  /\ UNCHANGED <<now, ext, batch, stores, ing, gen, nIngest, nGen, nSaves,
                 nFaults>>

\* this.ocrWorker.recognize(file): the field is read again; on null the
\* call is a TypeError, caught and thrown as 'Failed to extract text'.
Recognize(f) ==
  /\ f \in Flows
  /\ ocr.flows[f].pc = "recognize"
  /\ ocr' = IF ocr.ocrWorker = Null
            THEN [ocr EXCEPT !.flows[f].pc = "ended",
                             !.flows[f].result = "error"]
            ELSE [ocr EXCEPT !.flows[f].pc = "recognizing",
                             !.flows[f].using = ocr.ocrWorker]
  /\ UNCHANGED <<now, ext, batch, stores, ing, gen, nIngest, nGen, nSaves,
                 nFaults>>

\* The recognition settles and the rest of the ingestion runs; none of it
\* releases the worker.  A terminated worker returns no text.
Recognized(f, ok) ==
  /\ f \in Flows
  /\ ocr.flows[f].pc = "recognizing"
  /\ ocr.flows[f].using \notin ocr.live => ~ok
  /\ ocr' = [ocr EXCEPT !.flows[f].pc = "ended",
                        !.flows[f].result = IF ok THEN "success"
                                            ELSE "error"]
  /\ UNCHANGED <<now, ext, batch, stores, ing, gen, nIngest, nGen, nSaves,
                 nFaults>>

\* finally { await fileProcessingService.terminateOCR() }:
\* if (this.ocrWorker) the worker's terminate() is called and awaited.
terminateOCR(f) ==
  /\ f \in Flows
  /\ ocr.flows[f].pc = "finally"
  /\ ocr' = IF ocr.ocrWorker = Null
            THEN [ocr EXCEPT !.flows[f].pc = "ended",
                             !.flows[f].result = "success"]
            ELSE [ocr EXCEPT !.flows[f].pc = "terminating",
                             !.flows[f].using = ocr.ocrWorker,
                             !.live = @ \ {ocr.ocrWorker}]
  /\ UNCHANGED <<now, ext, batch, stores, ing, gen, nIngest, nGen, nSaves,
                 nFaults>>

\* After the await: this.ocrWorker = null, whatever the field holds by now.
Terminated(f) ==
  /\ f \in Flows
  /\ ocr.flows[f].pc = "terminating"
  /\ ocr' = [ocr EXCEPT !.ocrWorker = Null,
                        !.flows[f].pc = "ended",
                        !.flows[f].result = "success"]
  /\ UNCHANGED <<now, ext, batch, stores, ing, gen, nIngest, nGen, nSaves,
                 nFaults>>

NextOcr ==
  \/ \E kind \in FlowKinds : StartFlow(kind)
  \/ \E f \in 1..MaxFlows : initializeOCR(f)
  \/ \E f \in 1..MaxFlows : WorkerCreated(f)
  \/ \E f \in 1..MaxFlows : Recognize(f)
  \/ \E f \in 1..MaxFlows, ok \in BOOLEAN : Recognized(f, ok)
  \/ \E f \in 1..MaxFlows : terminateOCR(f)
  \/ \E f \in 1..MaxFlows : Terminated(f)

SpecOcr == Init /\ [][NextOcr]_vars

\* -------------------------------------------------------------- reports
\* VIEW topic_history: every Source of the topic with ingested_at as its
\* timestamp, UNION ALL the Generations WHERE g.status = 'completed' with
\* completed_at as theirs.
topic_history(topic) ==
  {[entryType |-> "source", entryId |-> s,
    timestamp |-> sources[s].ingestedAt] : s \in getSources(topic)}
  \cup
  {[entryType |-> "generation", entryId |-> g,
    timestamp |-> generations[g].completedAt] :
     g \in {x \in Ids(generations) :
              /\ generations[x].topic = topic
              /\ generations[x].status = "completed"}}

\* .order('timestamp', { ascending: false }): descending, nulls first.
Later(a, b) == a = NoTime \/ (b # NoTime /\ a >= b)

RECURSIVE OrderDescending(_)
OrderDescending(rows) ==
  IF rows = {} THEN <<>>
  ELSE LET first == CHOOSE r \in rows :
                      \A o \in rows : Later(r.timestamp, o.timestamp)
       IN <<first>> \o OrderDescending(rows \ {first})

\* getTopicHistory(topicId).
getTopicHistory(topic) == OrderDescending(topic_history(topic))

\* A count query without its filter: every GenerationItem.
AllGenerationItems(sourceId) == Ids(generationItems)

\* from('generation_items').select('id')
\*   .contains('derived_from_sources', [source.id]).
ItemsDerivedFrom(sourceId) ==
  {i \in Ids(generationItems) :
     sourceId \in generationItems[i].derivedFromSources}

\* getSourcesWithStats(topicId): every Source of the topic with its
\* generatedItemsCount.  failing: the Sources whose count query returns an
\* error, which is logged; items is then undefined and the count is 0.
getSourcesWithStats(topic, failing) ==
  [s \in getSources(topic) |->
     IF s \in failing THEN 0 ELSE Cardinality(ItemsDerivedFrom(s))]

\* sources.reduce((sum, s) => sum + s.generatedItemsCount, 0).
RECURSIVE SumCounts(_, _)
SumCounts(stats, ids) ==
  IF ids = {} THEN 0
  ELSE LET s == CHOOSE x \in ids : TRUE
       IN stats[s] + SumCounts(stats, ids \ {s})

\* The summary of the history endpoint's response, getTopicHistory(topicId,
\* userId) of the api module, built from getSourcesWithStats(topicId).
HistorySummary(topic) ==
  LET stats == getSourcesWithStats(topic, {})
  IN [totalSources |-> Cardinality(DOMAIN stats),
      totalGeneratedItems |-> SumCounts(stats, DOMAIN stats)]

----------------------------------------------------------------------------
(* Properties of ingestion (checked under Spec).                           *)

\* The ingestion call in the slot has returned an error.
IngFailed == ing.pc = "done" /\ ing.result = "error"

\* The ingestion call in the slot has returned its Source.
IngSucceeded == ing.pc = "done" /\ ing.result = "success"

\* C1: when an ingestion entry point returns an error, nothing it created
\* persists: neither its blob nor its Document, knowledge-base row or Source.
C1_NoArtifactAfterError ==
  IngFailed =>
    /\ ing.path \notin blobs
    /\ ing.docId \notin Ids(documents)
    /\ ing.kbId \notin Ids(knowledgeBase)
    /\ ing.srcId \notin Ids(sources)

\* C2: when uploadFile or processYouTubeURL returns an error after its blob
\* upload succeeded and without a persisted Document, the blob is gone.
C2_NoOrphanBlob ==
  (/\ IngFailed
   /\ ing.kind \in {"file", "youtube"}
   /\ ing.uploaded
   /\ ing.docId = Null) => ing.path \notin blobs

C12_FetchFailureRecovered ==
  ing.fetchFailed =>
    /\ ing.error # "extraction"
    /\ ing.placeholder
    /\ IngSucceeded =>
          /\ sources[ing.srcId].processingStatus = "completed"
          /\ sources[ing.srcId].placeholder

\* C14: for every Source, processedAt is greater than or equal to
\* ingestedAt.
C14_ProcessedNotBeforeIngested ==
  \A s \in Ids(sources) : sources[s].processedAt >= sources[s].ingestedAt

C22_CleanupFailureKeepsError ==
  (IngFailed /\ ing.rmFailed) => ing.error = "persistence"

\* The ingestion call in the slot has written a Document, a knowledge-base
\* row or a Source.
IngWroteRecord ==
  \/ Len(documents) > ing.before.doc
  \/ Len(knowledgeBase) > ing.before.kb
  \/ Len(sources) > ing.before.src

\* C24: an ingestion of a malformed url (a web url that does not parse, a
\* video url without a video id) returns an error, and neither placeholder
\* content nor a Document, knowledge-base row or Source is created for it.
C24_InvalidUrlIsHardFailure ==
  ~ing.urlValid =>
    /\ ing.pc \in {"extract", "done"}
    /\ ing.pc = "done" => ing.result = "error"
    /\ ~ing.placeholder
    /\ ~IngWroteRecord

----------------------------------------------------------------------------
(* Properties of generation (checked under SpecGen, C4 under SpecApi).      *)

Terminal == {"completed", "failed"}

\* C4: once a Generation's status is completed or failed, no step of a
\* workflow and no call of updateGeneration changes it.
C4_TerminalStatusIsFinal ==
  [][\A g \in Ids(generations) :
        generations[g].status \in Terminal =>
          generations'[g].status = generations[g].status]_vars

\* C5: when a workflow that created a Generation has ended, that Generation
\* is completed or failed, and after a failure it is failed with an
\* errorMessage.
C5_EndsTerminal ==
  (gen.pc = "done" /\ gen.genId # Null) =>
    /\ generations[gen.genId].status \in Terminal
    /\ gen.result = "error" =>
          /\ generations[gen.genId].status = "failed"
          /\ generations[gen.genId].errorMessage

\* C13: when the completion service answers with well-formed JSON holding
\* no item at all, the generation succeeds: its Generation ends completed
\* with itemsGenerated = 0, no Question is created, no error is returned.
C13_EmptyAnswerIsSuccess ==
  (gen.pc = "done" /\ gen.emptyResponse) =>
    /\ gen.result = "success"
    /\ gen.genId # Null
    /\ generations[gen.genId].status = "completed"
    /\ generations[gen.genId].itemsGenerated = 0
    /\ Len(questions) = Len(gen.qBefore)

\* C23: a Generation in status completed has completedAt set, not earlier
\* than startedAt, has processingTimeMs set, and its itemsGenerated is the
\* number of GenerationItems persisted for it.
C23_CompletedIsFilled ==
  \A g \in Ids(generations) :
    generations[g].status = "completed" =>
      /\ generations[g].completedAt # NoTime
      /\ generations[g].completedAt >= generations[g].startedAt
      /\ generations[g].processingTimeMs # NoTime
      /\ generations[g].itemsGenerated =
            Cardinality({i \in Ids(generationItems) :
                           generationItems[i].generationId = g})

\* C6: the sourceIds of a selective Generation are the caller's ids that are
\* Sources of the topic, and the call fails for missing sources only when
\* there is no such id.
C6_SelectiveIdsAreIntersection ==
  gen.mode = "selective" =>
    /\ gen.genId # Null =>
          generations[gen.genId].sourceIds
            = {s \in gen.requested :
                 s \in Ids(sources) /\ sources[s].topic = gen.topic}
    /\ gen.error = "nosources" =>
          ~ \E s \in gen.requested :
               s \in Ids(sources) /\ sources[s].topic = gen.topic

\* A Generation was created from a request that mixes a Source of the topic
\* with an id that is foreign or unknown.
C6_Witness ==
  /\ gen.mode = "selective"
  /\ gen.genId # Null
  /\ generations[gen.genId].sourceIds # {}
  /\ \E s \in gen.requested : s \notin generations[gen.genId].sourceIds

\* The set of source ids the spec resolves a bulk or selective call to.
ResolvedSet ==
  IF gen.mode = "bulk"
  THEN {s \in Ids(sources) : sources[s].topic = gen.topic}
  ELSE {s \in gen.requested :
          s \in Ids(sources) /\ sources[s].topic = gen.topic}

\* C7: a bulk or selective call whose resolved source set is empty returns
\* an error, creates no Generation, Question or GenerationItem and does not
\* call the completion service.
C7_EmptySetFailsFast ==
  (gen.mode \in {"bulk", "selective"} /\ ResolvedSet = {}) =>
    /\ gen.genId = Null
    /\ ~gen.aiCalled
    /\ Len(generations) = gen.gBefore
    /\ Len(questions) = Len(gen.qBefore)
    /\ Len(generationItems) = gen.iBefore
    /\ gen.pc = "done" => gen.result = "error"

\* A selective call given ids that are all foreign or unknown has returned.
C7_Witness ==
  /\ gen.mode = "selective"
  /\ gen.requested # {}
  /\ gen.pc = "done"
  /\ gen.error = "nosources"

\* C8: every GenerationItem's derivedFromSources is a subset of its
\* Generation's sourceIds, and its Question's sourceAttribution equals those
\* sourceIds.
C8_ItemsAttributedToParent ==
  \A i \in Ids(generationItems) :
    LET item == generationItems[i] IN
    /\ item.generationId \in Ids(generations)
    /\ item.questionId \in Ids(questions)
    /\ item.derivedFromSources \subseteq generations[item.generationId].sourceIds
    /\ questions[item.questionId].sourceAttribution
         = generations[item.generationId].sourceIds

\* An item exists whose Generation dropped one of the requested ids.
C8_Witness ==
  /\ gen.mode = "selective"
  /\ gen.requested # gen.sourceIds
  /\ \E i \in Ids(generationItems) :
        /\ generationItems[i].generationId = gen.genId
        /\ generationItems[i].derivedFromSources # {}

\* The Questions of a topic in a Question table.
TopicQuestions(table, topic) ==
  {q \in Ids(table) : table[q].topic = topic}

\* C9: when a selective call has returned, the topic holds as many Questions
\* as before the call plus the itemsGenerated recorded on the call's
\* Generation, and the earlier Questions differ at most in isSaved.
C9_QuestionsOnlyGrowByRecorded ==
  (gen.pc = "done" /\ gen.mode = "selective") =>
    /\ Cardinality(TopicQuestions(questions, gen.topic))
         = Cardinality(TopicQuestions(gen.qBefore, gen.topic))
           + (IF gen.genId = Null THEN 0
              ELSE generations[gen.genId].itemsGenerated)
    /\ Len(questions) >= Len(gen.qBefore)
    /\ \A q \in Ids(gen.qBefore) :
          [questions[q] EXCEPT !.isSaved = gen.qBefore[q].isSaved]
            = gen.qBefore[q]

\* C10: when no generation workflow is running, every Question with a
\* generationId has exactly one GenerationItem of that Generation, and
\* every GenerationItem has its Question.
C10_QuestionsAndItemsPaired ==
  GenFree =>
    /\ \A q \in Ids(questions) :
          questions[q].generationId # Null =>
            Cardinality({i \in Ids(generationItems) :
                           /\ generationItems[i].questionId = q
                           /\ generationItems[i].generationId
                                = questions[q].generationId}) = 1
    /\ \A i \in Ids(generationItems) :
          /\ generationItems[i].questionId \in Ids(questions)
          /\ questions[generationItems[i].questionId].generationId
               = generationItems[i].generationId

\* The entries of a history, as (kind, id) pairs.
HistoryEntries(h) == {<<h[i].entryType, h[i].entryId>> : i \in 1..Len(h)}

\* C18: the history of a topic has one entry for every Source and one for
\* every Generation of the topic, whatever its status, tagged by kind and
\* ordered by timestamp descending.
C18_HistoryHasAllGenerations ==
  \A t \in Topics :
    LET h == getTopicHistory(t)
        gens == {g \in Ids(generations) : generations[g].topic = t}
    IN /\ HistoryEntries(h)
            = {<<"source", s>> : s \in getSources(t)}
              \cup {<<"generation", g>> : g \in gens}
       /\ Len(h) = Cardinality(getSources(t)) + Cardinality(gens)
       /\ \A i \in 1..(Len(h) - 1) : h[i].timestamp >= h[i + 1].timestamp

\* C30: summary.totalGeneratedItems of a topic's history report is the
\* number of distinct GenerationItems of the topic, also for items derived
\* from several Sources and for Generations without sourceIds.
C30_TotalIsDistinctItems ==
  \A t \in Topics :
    HistorySummary(t).totalGeneratedItems =
      Cardinality({i \in Ids(generationItems) :
                     generations[generationItems[i].generationId].topic = t})

\* C20: the knowledge-base entries a bulk or selective generation sends to
\* the completion service are exactly the entries referenced by the Sources
\* in its Generation's sourceIds.
C20_OnlyResolvedSourcesAreSent ==
  (gen.mode \in {"bulk", "selective"} /\ gen.aiCalled) =>
    gen.kb = {sources[s].knowledgeBaseId :
                s \in generations[gen.genId].sourceIds}

----------------------------------------------------------------------------
(* Properties of text extraction (checked under SpecText).                 *)

\* The whitespace-delimited, non-empty tokens of a text.
Tokens(t) ==
  Cardinality({i \in 1..Len(t) :
                 ~IsSpace(t[i]) /\ (i = 1 \/ IsSpace(t[i - 1]))})

\* C11: every ExtractedContent an extraction returns has a non-empty text,
\* and every knowledge-base entry written from it has a non-empty text.
C11_TextNeverEmpty ==
  /\ ext.pc \in {"returned", "stored"} => ext.text # <<>>
  /\ ext.pc = "stored" => ~ext.kbNull /\ ext.kbContent # <<>>

\* C17: metadata.wordCount is the number of whitespace-delimited non-empty
\* tokens of the text returned as the extracted text.
C17_WordCountIsTokenCount ==
  ext.pc \in {"returned", "stored"} => ext.wordCount = Tokens(ext.text)

----------------------------------------------------------------------------
(* Properties of document deletion (checked under SpecDelete).             *)

\* C29: a deleteDocument call on an existing Document that returns an error
\* has left the Document and its blob in place, and one that returns
\* success has left neither; so no Document's storage path names a blob
\* that deleteDocument removed.
C29_DeleteAllOrNothing ==
  (ing.kind = "delete" /\ ing.pc = "done" /\ ing.before.doc = 1) =>
    LET path == documents[ing.docId].storagePath
    IN IF ing.result = "error"
       THEN DocumentExists(ing.docId) /\ (path # Null => path \in blobs)
       ELSE ~DocumentExists(ing.docId) /\ path \notin blobs

----------------------------------------------------------------------------
(* Properties of network fetches (checked under SpecNet).                  *)

\* C25: an extraction that has sent its request always completes, with a
\* text, a placeholder or an error, also when the remote side never
\* responds.
C25_ExtractionTerminates ==
  (ext.pc = "fetching") ~> (ext.pc \in {"returned", "thrown"})

----------------------------------------------------------------------------
(* Properties of batches of files (checked under SpecBatch).               *)

\* C26: the files of one handleFiles call are ingested one at a time in the
\* submitted order: at most one ingest is in flight, and a file's ingest
\* has started only if the ingests of all files before it have returned.
C26_OneFileAtATime ==
  /\ Cardinality({i \in DOMAIN batch.files :
                    batch.files[i] = "inflight"}) <= 1
  /\ \A i \in DOMAIN batch.files :
        batch.files[i] # "pending" =>
          \A j \in 1..(i - 1) : batch.files[j] = "returned"

\* The second file of a batch is being ingested after the first returned.
C26_Witness ==
  /\ Len(batch.files) >= 2
  /\ batch.files[1] = "returned"
  /\ batch.files[2] = "inflight"

----------------------------------------------------------------------------
(* Properties of the OCR worker (checked under SpecOcr).                   *)

\* C27: when a workflow has ended, with success or with an error, the OCR
\* worker it acquired is no longer allocated.
C27_WorkerReleasedAtEnd ==
  \A f \in Flows :
    ocr.flows[f].pc = "ended" => ocr.flows[f].acquired \notin ocr.live

\* C28: from the return of its initializeOCR to the end of its recognize
\* call an image extraction has a live worker that no other workflow
\* released or replaced, and every worker that is allocated is the one the
\* service still holds, so that a later terminateOCR releases it.
C28_WorkerNotSharedAcrossFlows ==
  /\ \A f \in Flows :
        /\ ocr.flows[f].pc = "recognize" =>
              ocr.ocrWorker # Null /\ ocr.ocrWorker \in ocr.live
        /\ ocr.flows[f].pc = "recognizing" => ocr.flows[f].using \in ocr.live
  /\ \A w \in ocr.live : w = ocr.ocrWorker

----------------------------------------------------------------------------
(* Properties of file routing (checked under SpecFile).                    *)

\* The strategy a content type belongs to ("none": to no strategy).
TypeStrategy(fileType) ==
  CASE fileType = "audio/mpeg" -> "audio"
    [] fileType = "application/pdf" -> "pdf"
    [] fileType = "docx-type" -> "word"
    [] fileType = "pptx-type" -> "powerpoint"
    [] fileType = "xlsx-type" -> "excel"
    [] fileType \in {"application/msword", "application/vnd.ms-powerpoint",
                     "application/vnd.ms-excel"} -> "legacy"
    [] fileType = "text/csv" -> "csv"
    [] fileType = "image/png" -> "image"
    [] fileType = "text/plain" -> "text"
    [] OTHER -> "none"

\* The strategy a filename extension belongs to.
NameStrategy(fileName) ==
  CASE fileName = "mp3" -> "audio"
    [] fileName = "pdf" -> "pdf"
    [] fileName = "docx" -> "word"
    [] fileName = "pptx" -> "powerpoint"
    [] fileName = "xlsx" -> "excel"
    [] fileName \in {"doc", "ppt", "xls"} -> "legacy"
    [] fileName = "csv" -> "csv"
    [] fileName = "png" -> "image"
    [] fileName = "txt" -> "text"
    [] OTHER -> "none"

FileRouted == ext.pc \in {"thrown", "routed", "persisted"}

\* C15: processFile selects the strategy of the content type when there is
\* one, else the strategy of the filename extension, else the generic text
\* fallback.
C15_ContentTypeFirst ==
  FileRouted =>
    ext.extractor =
      IF TypeStrategy(ext.fileType) # "none" THEN TypeStrategy(ext.fileType)
      ELSE IF NameStrategy(ext.fileName) # "none"
           THEN NameStrategy(ext.fileName)
      ELSE "fallback"

\* The modern format an error for a legacy file has to name.
LegacyModern ==
  CASE ext.fileName = "doc" \/ ext.fileType = "application/msword" -> "DOCX"
    [] ext.fileName = "ppt"
         \/ ext.fileType = "application/vnd.ms-powerpoint" -> "PPTX"
    [] OTHER -> "XLSX"

\* C16: a file in a legacy office format, by extension or by content type,
\* is rejected with an error naming the modern format; no extractor gets it
\* and nothing is persisted for it.
C16_LegacyRejected ==
  (/\ FileRouted
   /\ \/ NameStrategy(ext.fileName) = "legacy"
      \/ TypeStrategy(ext.fileType) = "legacy") =>
    /\ ext.pc = "thrown"
    /\ ext.extractor = "legacy"
    /\ ext.message = LegacyModern

====
